---- MODULE Spec2Model ----
(***************************************************************************)
(* Distance-vector routing simulation with split horizon and one scripted  *)
(* link failure (CS3S661_CW2_30031906_Rhodri_Morris-Stiff_Program.py).     *)
(* The state is the roster of Router objects (neighbors dict, routing      *)
(* table) and the locals of run_distance_vector_simulation; the actions    *)
(* are the steps of its round loop.                                        *)
(***************************************************************************)
EXTENDS Integers, Sequences, FiniteSets, TLC

VARIABLES
    routers,             \* the list `routers`: router ids in list order
    neighbors,           \* r.neighbors of every router: neighbor id -> link cost
    neighbor_order,      \* key order of every r.neighbors dict (insertion order)
    routing_table,       \* r.routing_table of every router: dest -> (dist, next_hop)
    max_iterations,      \* parameter of run_distance_vector_simulation
    link_failure_iter,   \* parameter (None = disabled)
    fail_pair,           \* parameter
    iteration,           \* loop variable of the round loop
    updates_this_round,  \* local counter of the round
    all_filtered_tables, \* local snapshot: sender -> neighbor -> advertised table
    delivery,            \* position in the nested delivery loops (lines 108-114)
    pc,                  \* position of the driver inside the round
    status,              \* how the run stands: Running, Converged, Exhausted, Error
    initial_neighbors,   \* history: link costs as constructed
    snapshot_table,      \* history: routing tables when the snapshot was taken
    delivered,           \* history: the last (sender, neighbor, table) handed to a merge
    failure_calls        \* history: how often simulate_link_failure was called

vars == <<routers, neighbors, neighbor_order, routing_table, max_iterations,
          link_failure_iter, fail_pair, iteration, updates_this_round,
          all_filtered_tables, delivery, pc, status, initial_neighbors,
          snapshot_table, delivered, failure_calls>>

----------------------------------------------------------------------------
(* Values *)

\* Python's None (no router has this id)
None == 0

\* math.inf, kept apart from every finite cost; arithmetic and comparison
\* on it go through Add and Less below
Inf == -1

\* float addition on non-negative numbers and math.inf: inf absorbs
Add(a, b) == IF a = Inf \/ b = Inf THEN Inf ELSE a + b

\* float `<` on non-negative numbers and math.inf: inf is above every finite
\* value and not below itself
Less(a, b) == a # Inf /\ (b = Inf \/ a < b)

\* `<=`, derived from Less
LessEq(a, b) == a = b \/ Less(a, b)

\* a dict without keys
EmptyDict == [x \in {} |-> None]

\* a routing-table entry, the tuple (dist, next_hop)
Entry(d, nh) == [dist |-> d, next_hop |-> nh]

----------------------------------------------------------------------------
(* Bounds and inputs *)

\* largest iteration budget tried besides the one main() uses
MaxIter == 2

\* max_iterations passed by main()
MainMaxIterations == 10

\* link_failure_iter passed by main()
MainLinkFailureIter == 3

\* ids that may appear in a configuration
MaxRouterID == 4

RouterIDs == 1..MaxRouterID

\* the roster main() builds: 1-2 cost 2, 1-3 cost 5, 2-3 cost 1
Triangle ==
    (1 :> (2 :> 2 @@ 3 :> 5)) @@ (2 :> (1 :> 2 @@ 3 :> 1)) @@ (3 :> (1 :> 5 @@ 2 :> 1))

\* the pair main() fails
MainFailPair == <<1, 2>>

\* a line 1 - 2 - 3 with unit costs
Line3 ==
    (1 :> (2 :> 1)) @@ (2 :> (1 :> 1 @@ 3 :> 1)) @@ (3 :> (2 :> 1))

\* router 1 lists 2, router 2 does not list 1 (the caller broke the symmetry
\* convention); a zero-cost link 2-3
OneSided ==
    (1 :> (2 :> 1 @@ 3 :> 2)) @@ (2 :> (3 :> 0)) @@ (3 :> (1 :> 2 @@ 2 :> 0))

\* router 1 lists neighbor 4, and the roster has no router 4
Dangling ==
    (1 :> (2 :> 1 @@ 4 :> 1)) @@ (2 :> (1 :> 1))

\* a square 1-2, 1-3, 2-4, 3-4 with unit costs: two equal-cost paths 1..4
Square ==
    (1 :> (2 :> 1 @@ 3 :> 1)) @@ (2 :> (1 :> 1 @@ 4 :> 1)) @@
    (3 :> (1 :> 1 @@ 4 :> 1)) @@ (4 :> (2 :> 1 @@ 3 :> 1))

\* two routers, router 1 also lists itself at cost 0
SelfLoop ==
    (1 :> (1 :> 0 @@ 2 :> 1)) @@ (2 :> (1 :> 1))

\* routers 1 and 2 linked at cost 3, router 3 without neighbors
Islands ==
    (1 :> (2 :> 3)) @@ (2 :> (1 :> 3)) @@ (3 :> EmptyDict)

Rosters == {Triangle, Line3, OneSided, Dangling, Square, SelfLoop, Islands}

\* all orders of a finite set, as sequences
Perms(S) ==
    {s \in [1..Cardinality(S) -> S] : \A i, j \in 1..Cardinality(S) : i # j => s[i] # s[j]}

Ascending(S) == CHOOSE s \in Perms(S) : \A i, j \in 1..Cardinality(S) : i < j => s[i] < s[j]

Descending(S) == CHOOSE s \in Perms(S) : \A i, j \in 1..Cardinality(S) : i < j => s[i] > s[j]

\* key orders tried for the neighbors dicts of a roster
NeighborOrders(nb) ==
    { [r \in DOMAIN nb |-> Ascending(DOMAIN nb[r])],
      [r \in DOMAIN nb |-> Descending(DOMAIN nb[r])] }

IterationBudgets == (1..MaxIter) \cup {MainMaxIterations}

FailureIters == {None} \cup (1..MainLinkFailureIter)

FailPairs == {<<a, b>> \in RouterIDs \X RouterIDs : a < b}

----------------------------------------------------------------------------
(* Router *)

\* a constructor that records the router as its own next hop
InitialTableSelfHop(id) == id :> Entry(0, id)

\* Router.__init__: the table holds the self-entry only
InitialTable(id) == id :> Entry(0, None)

\* Router.get_distance
get_distance(table, destination) ==
    IF destination \in DOMAIN table THEN table[destination].dist ELSE Inf

\* a filter that compares the destination, not the next hop, with the neighbor
filter_by_destination(table, for_neighbor_id) ==
    [dest \in {d \in DOMAIN table : d # for_neighbor_id} |-> table[dest]]

\* Router.get_filtered_routing_table: a new dict without the entries whose
\* next hop is for_neighbor_id
get_filtered_routing_table(table, for_neighbor_id) ==
    [dest \in {d \in DOMAIN table : table[d].next_hop # for_neighbor_id} |-> table[dest]]

\* a comparison that accepts any different distance
differs(new_dist, current_dist) == new_dist # current_dist

\* a comparison that accepts ties
improves_or_ties(new_dist, current_dist) == LessEq(new_dist, current_dist)

\* the comparison of line 55
improves(new_dist, current_dist) == Less(new_dist, current_dist)

\* a lookup that takes an unlisted sender for a free link
cost_to_neighbor_default_zero(nbrs, neighbor_id) ==
    IF neighbor_id \in DOMAIN nbrs THEN nbrs[neighbor_id] ELSE 0

\* line 47: self.neighbors.get(neighbor_id, math.inf)
cost_to_neighbor(nbrs, neighbor_id) ==
    IF neighbor_id \in DOMAIN nbrs THEN nbrs[neighbor_id] ELSE Inf

\* a candidate that leaves out the cost of the link to the sender
new_dist_without_link(cost, neighbor_dist) == neighbor_dist

\* line 52: the candidate distance
new_dist(cost, neighbor_dist) == Add(cost, neighbor_dist)

\* the destinations a merge rewrites (lines 49-55)
improved_dests(self_id, nbrs, table, neighbor_id, neighbor_table) ==
    {dest \in DOMAIN neighbor_table :
        /\ dest # self_id
        /\ improves(new_dist(cost_to_neighbor(nbrs, neighbor_id), neighbor_table[dest].dist),
                    get_distance(table, dest))}

\* an entry that copies the next hop of the advertised tuple
stored_entry_advertised_hop(candidate, neighbor_id, advertised) ==
    Entry(candidate, advertised.next_hop)

\* the entry line 56 stores
stored_entry(candidate, neighbor_id, advertised) == Entry(candidate, neighbor_id)

\* Router.update_table_from_neighbor: the table after the merge
update_table_from_neighbor(self_id, nbrs, table, neighbor_id, neighbor_table) ==
    LET changed == improved_dests(self_id, nbrs, table, neighbor_id, neighbor_table)
    IN  [dest \in DOMAIN table \cup changed |->
            IF dest \in changed
            THEN stored_entry(new_dist(cost_to_neighbor(nbrs, neighbor_id),
                                       neighbor_table[dest].dist),
                              neighbor_id, neighbor_table[dest])
            ELSE table[dest]]

\* a return value that is set only when a known destination gets cheaper
update_reported_known_only(self_id, nbrs, table, neighbor_id, neighbor_table) ==
    improved_dests(self_id, nbrs, table, neighbor_id, neighbor_table) \cap DOMAIN table # {}

\* Router.update_table_from_neighbor: its return value `updated`
update_reported(self_id, nbrs, table, neighbor_id, neighbor_table) ==
    improved_dests(self_id, nbrs, table, neighbor_id, neighbor_table) # {}

----------------------------------------------------------------------------
(* Driver *)

\* the ids in the list `routers`
Roster(rs) == {rs[i] : i \in 1..Len(rs)}

\* a failure that raises only the first router's cost
simulate_link_failure_one_way(rs, nb, pair) ==
    IF pair[1] \in Roster(rs) /\ pair[2] \in Roster(rs)
    THEN [r \in DOMAIN nb |->
            [n \in DOMAIN nb[r] |->
                IF r = pair[1] /\ n = pair[2] THEN Inf ELSE nb[r][n]]]
    ELSE nb

\* simulate_link_failure: the neighbors dicts after the call
simulate_link_failure(rs, nb, pair) ==
    LET a_id == pair[1]
        b_id == pair[2]
    IN  IF a_id \in Roster(rs) /\ b_id \in Roster(rs)
        THEN [r \in DOMAIN nb |->
                [n \in DOMAIN nb[r] |->
                    IF (r = a_id /\ n = b_id) \/ (r = b_id /\ n = a_id)
                    THEN Inf ELSE nb[r][n]]]
        ELSE nb

\* lines 98-105: every sender's filtered table for every key of its neighbors
snapshot(nb, rt) ==
    [s \in DOMAIN nb |-> [n \in DOMAIN nb[s] |-> get_filtered_routing_table(rt[s], n)]]

\* the (sender, neighbor) pairs in the order the nested loops of lines
\* 108-110 visit them
RECURSIVE PairsFrom(_, _, _)
PairsFrom(rs, order, i) ==
    IF i > Len(rs) THEN <<>>
    ELSE [j \in 1..Len(order[rs[i]]) |-> <<rs[i], order[rs[i]][j]>>]
         \o PairsFrom(rs, order, i + 1)

DeliveryPairs(rs, order) == PairsFrom(rs, order, 1)

\* a delivery that filters the sender's table as it stands at delivery time
table_to_send_live(filtered, rt, sender_id, neighbor_id) ==
    get_filtered_routing_table(rt[sender_id], neighbor_id)

\* line 112: the table handed to the merge
table_to_send(filtered, rt, sender_id, neighbor_id) == filtered[sender_id][neighbor_id]

\* lines 111-114 for one (sender, neighbor) pair whose neighbor is in the
\* roster: the tables and the counter after the merge
deliver_one(nb, filtered, rt, count, sender_id, neighbor_id) ==
    LET sent == table_to_send(filtered, rt, sender_id, neighbor_id)
    IN  [routing_table |->
            [rt EXCEPT ![neighbor_id] =
                update_table_from_neighbor(neighbor_id, nb[neighbor_id], rt[neighbor_id],
                                           sender_id, sent)],
         updates |->
            IF update_reported(neighbor_id, nb[neighbor_id], rt[neighbor_id], sender_id, sent)
            THEN count + 1 ELSE count,
         sent |-> sent]

\* lines 108-114 from position i of the nested loops to their end
RECURSIVE deliver_from(_, _, _, _, _, _)
deliver_from(pairs, nb, filtered, rt, count, i) ==
    IF i > Len(pairs)
    THEN [routing_table |-> rt, updates |-> count, error |-> FALSE]
    ELSE IF pairs[i][2] \notin DOMAIN rt
    THEN [routing_table |-> rt, updates |-> count, error |-> TRUE]
    ELSE LET one == deliver_one(nb, filtered, rt, count, pairs[i][1], pairs[i][2])
         IN  deliver_from(pairs, nb, filtered, one.routing_table, one.updates, i + 1)

\* lines 98-114: one full exchange, snapshot first and then every delivery
exchange_round(rs, order, nb, rt) ==
    deliver_from(DeliveryPairs(rs, order), nb, snapshot(nb, rt), rt, 0, 1)

\* lines 90-125 from iteration `it` on: how and with which state the run ends
RECURSIVE run_from(_, _, _, _, _, _, _, _)
run_from(rs, order, nb, rt, max_it, fail_it, pair, it) ==
    IF it > max_it
    THEN [routing_table |-> rt, neighbors |-> nb, status |-> "Exhausted"]
    ELSE LET nb2 == IF fail_it # None /\ it = fail_it
                    THEN simulate_link_failure(rs, nb, pair) ELSE nb
             r == exchange_round(rs, order, nb2, rt)
         IN  IF r.error
             THEN [routing_table |-> r.routing_table, neighbors |-> nb2, status |-> "Error"]
             ELSE IF r.updates = 0
             THEN [routing_table |-> r.routing_table, neighbors |-> nb2,
                   status |-> "Converged"]
             ELSE run_from(rs, order, nb2, r.routing_table, max_it, fail_it, pair, it + 1)

\* a whole run of run_distance_vector_simulation on freshly built routers
run_distance_vector_simulation(rs, order, nb, max_it, fail_it, pair) ==
    run_from(rs, order, nb, [r \in DOMAIN nb |-> InitialTable(r)], max_it, fail_it, pair, 1)

Init ==
    /\ neighbors \in Rosters
    /\ routers \in Perms(DOMAIN neighbors)
    /\ neighbor_order \in NeighborOrders(neighbors)
    /\ routing_table = [r \in DOMAIN neighbors |-> InitialTable(r)]
    /\ max_iterations \in IterationBudgets
    /\ link_failure_iter \in FailureIters
    /\ fail_pair \in FailPairs
    /\ iteration = 0
    /\ updates_this_round = 0
    /\ all_filtered_tables = EmptyDict
    /\ delivery = 1
    /\ pc = "loop"
    /\ status = "Running"
    /\ initial_neighbors = neighbors
    /\ snapshot_table = routing_table
    /\ delivered = [sender |-> None, neighbor |-> None, table |-> EmptyDict]
    /\ failure_calls = 0

config == <<routers, neighbor_order, max_iterations, link_failure_iter, fail_pair,
            initial_neighbors>>

\* line 90-92: the loop takes its next iteration
NextIteration ==
    /\ pc = "loop"
    /\ iteration < max_iterations
    /\ iteration' = iteration + 1
    /\ updates_this_round' = 0
    /\ pc' = "failure"
    /\ UNCHANGED <<failure_calls, config, neighbors, routing_table, all_filtered_tables, delivery,
                   status, snapshot_table, delivered>>

\* line 90: range(1, max_iterations + 1) is used up, the function returns
LoopExhausted ==
    /\ pc = "loop"
    /\ iteration >= max_iterations
    /\ pc' = "done"
    /\ status' = "Exhausted"
    /\ UNCHANGED <<failure_calls, config, neighbors, routing_table, iteration, updates_this_round,
                   all_filtered_tables, delivery, snapshot_table, delivered>>

\* a condition that holds in every round from link_failure_iter on
failure_due_from_then_on == link_failure_iter # None /\ iteration >= link_failure_iter

\* the condition of line 95
failure_due == link_failure_iter # None /\ iteration = link_failure_iter

\* lines 94-96
FailureEvent ==
    /\ pc = "failure"
    /\ neighbors' = IF failure_due
                    THEN simulate_link_failure(routers, neighbors, fail_pair)
                    ELSE neighbors
    /\ failure_calls' = IF failure_due THEN failure_calls + 1 ELSE failure_calls
    /\ pc' = "advertise"
    /\ UNCHANGED <<config, routing_table, iteration, updates_this_round,
                   all_filtered_tables, delivery, status, snapshot_table, delivered>>

\* lines 98-105
Advertise ==
    /\ pc = "advertise"
    /\ all_filtered_tables' = snapshot(neighbors, routing_table)
    /\ snapshot_table' = routing_table
    /\ delivery' = 1
    /\ pc' = "deliver"
    /\ UNCHANGED <<failure_calls, config, neighbors, routing_table, iteration, updates_this_round,
                   status, delivered>>

\* lines 108-114, one pass of the inner loop body
Deliver ==
    /\ pc = "deliver"
    /\ delivery <= Len(DeliveryPairs(routers, neighbor_order))
    /\ LET sender_id == DeliveryPairs(routers, neighbor_order)[delivery][1]
           neighbor_id == DeliveryPairs(routers, neighbor_order)[delivery][2]
       IN  /\ neighbor_id \in Roster(routers)
           /\ LET one == deliver_one(neighbors, all_filtered_tables, routing_table,
                                     updates_this_round, sender_id, neighbor_id)
              IN  /\ routing_table' = one.routing_table
                  /\ updates_this_round' = one.updates
                  /\ delivered' = [sender |-> sender_id, neighbor |-> neighbor_id,
                                   table |-> one.sent]
    /\ delivery' = delivery + 1
    /\ UNCHANGED <<failure_calls, config, neighbors, iteration, all_filtered_tables, pc, status,
                   snapshot_table>>

\* line 111: next() finds no router with the neighbor's id and raises
DeliverLookupFails ==
    /\ pc = "deliver"
    /\ delivery <= Len(DeliveryPairs(routers, neighbor_order))
    /\ DeliveryPairs(routers, neighbor_order)[delivery][2] \notin Roster(routers)
    /\ pc' = "done"
    /\ status' = "Error"
    /\ UNCHANGED <<failure_calls, config, neighbors, routing_table, iteration, updates_this_round,
                   all_filtered_tables, delivery, snapshot_table, delivered>>

\* a convergence check that reports convergence and forgets the break
CheckConvergenceNoBreak ==
    /\ pc = "deliver"
    /\ delivery > Len(DeliveryPairs(routers, neighbor_order))
    /\ pc' = "loop"
    /\ status' = IF updates_this_round = 0 THEN "Converged" ELSE status
    /\ UNCHANGED <<failure_calls, config, neighbors, routing_table, iteration, updates_this_round,
                   all_filtered_tables, delivery, snapshot_table, delivered>>

\* lines 120-128: the convergence check that ends the round
CheckConvergence ==
    /\ pc = "deliver"
    /\ delivery > Len(DeliveryPairs(routers, neighbor_order))
    /\ IF updates_this_round = 0
       THEN pc' = "done" /\ status' = "Converged"
       ELSE pc' = "loop" /\ status' = status
    /\ UNCHANGED <<failure_calls, config, neighbors, routing_table, iteration, updates_this_round,
                   all_filtered_tables, delivery, snapshot_table, delivered>>

Next ==
    \/ NextIteration
    \/ LoopExhausted
    \/ FailureEvent
    \/ Advertise
    \/ Deliver
    \/ DeliverLookupFails
    \/ CheckConvergence

Spec == Init /\ [][Next]_vars

----------------------------------------------------------------------------
(* Properties *)

\* the configuration of main(): the triangle roster in list order 1, 2, 3
\* and a budget of 10 iterations
MainRoster ==
    /\ initial_neighbors = Triangle
    /\ routers = <<1, 2, 3>>
    /\ max_iterations = MainMaxIterations

\* C1: in every reachable state every router's routing table holds the
\* self-entry (distance 0, next hop None), so its distance to itself is 0;
\* no merge overwrites or removes it.
SelfEntryInv ==
    \A r \in Roster(routers) :
        /\ r \in DOMAIN routing_table[r]
        /\ routing_table[r][r] = Entry(0, None)
        /\ get_distance(routing_table[r], r) = 0

\* C1 witness: after a failure was applied, a router merged an advertisement
\* that carried an entry for the router itself.
SelfEntryWitness ==
    /\ pc = "deliver"
    /\ neighbors # initial_neighbors
    /\ delivered.neighbor # None
    /\ delivered.neighbor \in DOMAIN delivered.table
    /\ delivered.table[delivered.neighbor].dist > 0

\* C2: split horizon: the advertisement a router computes for a neighbor N
\* has no entry whose stored next hop is N, has every other entry of the
\* router's table with the same distance, and computing the advertisements
\* leaves every routing table as it was.
SplitHorizon ==
    [][pc = "advertise" =>
        /\ routing_table' = routing_table
        /\ \A r \in DOMAIN neighbors : \A n \in DOMAIN neighbors[r] :
            LET ad == all_filtered_tables'[r][n]
                t == routing_table[r]
            IN  /\ DOMAIN ad \subseteq DOMAIN t
                /\ \A d \in DOMAIN ad : ad[d].next_hop # n
                /\ \A d \in DOMAIN t :
                    t[d].next_hop # n => d \in DOMAIN ad /\ ad[d].dist = t[d].dist
                /\ r \in DOMAIN ad]_vars

\* C2 witness: a snapshot in which some advertisement leaves out an entry of
\* its sender's table and keeps another learned one.
SplitHorizonWitness ==
    /\ pc = "deliver"
    /\ delivery = 1
    /\ iteration > 1
    /\ \E r \in DOMAIN neighbors : \E n \in DOMAIN neighbors[r] :
        /\ DOMAIN all_filtered_tables[r][n] # DOMAIN routing_table[r]
        /\ Cardinality(DOMAIN all_filtered_tables[r][n]) > 1

\* C3: when the run of main() (triangle, link 1-2 failed at round 3) has
\* ended, router 1's entry for destination 2 is (distance 6, next hop 3).
FailureRebalances ==
    (/\ MainRoster
     /\ link_failure_iter = MainLinkFailureIter
     /\ fail_pair = MainFailPair
     /\ pc = "done")
    => /\ 2 \in DOMAIN routing_table[1]
       /\ routing_table[1][2] = Entry(6, 3)

\* the tables the triangle converges to
TriangleFinal ==
    (1 :> (1 :> Entry(0, None) @@ 2 :> Entry(2, 2) @@ 3 :> Entry(3, 2))) @@
    (2 :> (1 :> Entry(2, 1) @@ 2 :> Entry(0, None) @@ 3 :> Entry(1, 3))) @@
    (3 :> (1 :> Entry(3, 2) @@ 2 :> Entry(1, 2) @@ 3 :> Entry(0, None)))

\* C4: on the triangle with no failure event the run of main() ends
\* Converged and the final tables are 1: 2 -> (2 via 2), 3 -> (3 via 2);
\* 2: 1 -> (2 via 1), 3 -> (1 via 3); 3: 1 -> (3 via 2), 2 -> (1 via 2),
\* plus the self-entries.
TriangleConverges ==
    (/\ MainRoster
     /\ link_failure_iter = None
     /\ pc = "done")
    => /\ status = "Converged"
       /\ routing_table = TriangleFinal

\* C4 witness: that run has ended.
TriangleWitness ==
    /\ MainRoster
    /\ link_failure_iter = None
    /\ pc = "done"
    /\ iteration = 3

\* C5: a router's stored distance to a destination never increases, except
\* in the step that fails the link to the next hop it uses for that
\* destination.
MonotonicImprovement ==
    [][\A r \in Roster(routers) : \A d \in RouterIDs :
        Less(get_distance(routing_table[r], d), get_distance(routing_table'[r], d))
        => /\ pc = "failure"
           /\ failure_due
           /\ routing_table[r][d].next_hop \in DOMAIN neighbors[r]
           /\ Less(neighbors[r][routing_table[r][d].next_hop],
                   neighbors'[r][routing_table[r][d].next_hop])]_vars

\* C5 witness: a round has been exchanged after the failure of a link that
\* a router uses as next hop.
MonotonicWitness ==
    /\ pc = "done"
    /\ \E r \in Roster(routers) : \E d \in DOMAIN routing_table[r] :
        /\ routing_table[r][d].next_hop \in DOMAIN neighbors[r]
        /\ neighbors[r][routing_table[r][d].next_hop] = Inf
        /\ initial_neighbors[r][routing_table[r][d].next_hop] # Inf

\* C6: a run executes at most max_iterations rounds; it is Converged exactly
\* when the round just executed counted no update (also in the last allowed
\* round), a round that counted updates is followed by the next one, and the
\* run is Exhausted only after round max_iterations with a positive count.
TerminalStates ==
    /\ iteration <= max_iterations
    /\ pc # "done" => status = "Running"
    /\ pc = "done" => status \in {"Converged", "Exhausted", "Error"}
    /\ status = "Converged" => updates_this_round = 0 /\ iteration >= 1
    /\ status = "Exhausted" => updates_this_round > 0 /\ iteration = max_iterations
    /\ (pc = "loop" /\ iteration > 0) => updates_this_round > 0

\* C6 witness: a run that used up its budget with updates in the last round.
ExhaustedWitness ==
    /\ pc = "done"
    /\ status = "Exhausted"
    /\ iteration = max_iterations
    /\ updates_this_round > 0

\* C7: every advertisement handed to a merge equals the sender's filtered
\* table as it stood when the round's snapshot was taken, whatever was merged
\* into the sender earlier in the round.
RoundConsistency ==
    (pc = "deliver" /\ delivery > 1)
    => delivered.table =
         get_filtered_routing_table(snapshot_table[delivered.sender], delivered.neighbor)

\* C7 witness: the sender of the last delivery had its own table changed
\* earlier in the same round.
RoundConsistencyWitness ==
    /\ pc = "deliver"
    /\ delivery > 1
    /\ delivered.table #
         get_filtered_routing_table(routing_table[delivered.sender], delivered.neighbor)

\* C8 as stated: a run that ends Converged ends with the same routing
\* tables, distances and next hops, as the run of the same roster and
\* configuration under every other order of the routers and of their
\* neighbors.
OrderIndependentTables ==
    (pc = "done" /\ status = "Converged")
    => \A rs \in Perms(DOMAIN initial_neighbors) :
         \A order \in NeighborOrders(initial_neighbors) :
           LET other == run_distance_vector_simulation(rs, order, initial_neighbors,
                            max_iterations, link_failure_iter, fail_pair)
           IN  /\ other.status = "Converged"
               /\ other.routing_table = routing_table

\* C8 amended: a run that ends Converged ends with the same destinations and
\* the same distance to each of them at every router as the run under every
\* other order; the next hops may differ.  Runs under all orders are
\* reachable, and each is compared with the run of the same roster and
\* configuration in ascending order of routers and neighbors, so any two of
\* them agree.
OrderIndependentDistances ==
    (pc = "done" /\ status = "Converged")
    => LET other == run_distance_vector_simulation(
                        Ascending(DOMAIN initial_neighbors),
                        [r \in DOMAIN initial_neighbors |->
                            Ascending(DOMAIN initial_neighbors[r])],
                        initial_neighbors, max_iterations, link_failure_iter, fail_pair)
       IN  /\ other.status = "Converged"
           /\ \A r \in Roster(routers) : \A d \in RouterIDs :
                get_distance(other.routing_table[r], d)
                  = get_distance(routing_table[r], d)

\* C8 witness: a converged run whose tables differ from those of the same
\* run under another order.
OrderWitness ==
    /\ pc = "done"
    /\ status = "Converged"
    /\ \E rs \in Perms(DOMAIN initial_neighbors) :
         run_distance_vector_simulation(rs, neighbor_order, initial_neighbors,
             max_iterations, link_failure_iter, fail_pair).routing_table # routing_table

\* C9: a full exchange from any reachable state that counts no update
\* leaves the tables as they were, and another exchange from its result with
\* the same link costs counts no update and changes no table either; the
\* state a run ends Converged in is such a fixed point.
FixedPointIdempotent ==
    LET first == exchange_round(routers, neighbor_order, neighbors, routing_table)
        second == exchange_round(routers, neighbor_order, neighbors, first.routing_table)
    IN  /\ (~first.error /\ first.updates = 0)
           => /\ first.routing_table = routing_table
              /\ second.updates = 0
              /\ second.routing_table = first.routing_table
        /\ (pc = "done" /\ status = "Converged")
           => first.updates = 0 /\ first.routing_table = routing_table

\* C9 witness: a run that converged after its failure event was applied and
\* after routes were learned.
FixedPointWitness ==
    /\ pc = "done"
    /\ status = "Converged"
    /\ neighbors # initial_neighbors
    /\ iteration > 1
    /\ exchange_round(routers, neighbor_order, neighbors, routing_table).updates = 0

\* C10: the failure event changes no link cost and no routing table, and the
\* run goes on, when a router of the pair is not in the roster or when one
\* side does not list the other as a neighbor.
FailureNoOp ==
    [][(/\ pc = "failure"
        /\ failure_due
        /\ ~(/\ fail_pair[1] \in Roster(routers)
             /\ fail_pair[2] \in Roster(routers)
             /\ fail_pair[2] \in DOMAIN neighbors[fail_pair[1]]
             /\ fail_pair[1] \in DOMAIN neighbors[fail_pair[2]]))
       => /\ neighbors' = neighbors
          /\ routing_table' = routing_table
          /\ pc' = "advertise"
          /\ status' = "Running"]_vars

\* C11: no step of the round loop ends in an error, also when a router
\* lists a neighbor id that no router of the roster has: every run ends
\* Converged or Exhausted.
NoRuntimeError ==
    /\ status # "Error"
    /\ pc = "done" => status \in {"Converged", "Exhausted"}

\* the routers whose table differs from the one they had when the round's
\* snapshot was taken
changed_routers == {r \in Roster(routers) : routing_table[r] # snapshot_table[r]}

\* the deliveries of the round are all made
round_delivered ==
    /\ pc = "deliver"
    /\ delivery > Len(DeliveryPairs(routers, neighbor_order))

\* C12 as stated: the count reported for a round equals the number of
\* routers whose routing table changed during the round, so it never exceeds
\* the number of routers.
CountsChangedRouters ==
    round_delivered
    => /\ updates_this_round = Cardinality(changed_routers)
       /\ updates_this_round <= Len(routers)

\* C12 amended: the count starts at 0 in every round and grows by one with
\* every delivery whose merge changed the receiver's table and with no other
\* step; when the round's deliveries are made it is at least the number of
\* routers whose table changed, at most the number of deliveries, and 0
\* exactly when no table changed.
CountsChangingDeliveries ==
    [][/\ (pc = "loop" /\ pc' = "failure") => updates_this_round' = 0
       /\ (pc = "deliver" /\ delivery' # delivery)
          => updates_this_round' =
               updates_this_round + (IF routing_table' # routing_table THEN 1 ELSE 0)
       /\ (~(pc = "loop" /\ pc' = "failure") /\ ~(pc = "deliver" /\ delivery' # delivery))
          => updates_this_round' = updates_this_round /\ routing_table' = routing_table
       /\ round_delivered'
          => /\ updates_this_round' >= Cardinality(changed_routers')
             /\ updates_this_round' <= Len(DeliveryPairs(routers, neighbor_order))
             /\ (updates_this_round' = 0 <=> changed_routers' = {})
      ]_vars

\* C12 witness: a round whose count exceeds the number of routers.
CountWitness ==
    /\ round_delivered
    /\ updates_this_round > Cardinality(changed_routers)
    /\ updates_this_round > Len(routers)

\* C13: a merge at router R from neighbor N replaces R's entry for a
\* destination d other than R by (cost(R,N) + advertised distance, N) exactly
\* when that candidate is strictly smaller than R's current distance to d
\* (Unreachable without an entry); otherwise, ties included, the entry and its
\* next hop stay as they are. So a next hop changes only in a step in which
\* the distance strictly decreases.
StrictImprovement ==
    [][/\ (pc = "deliver" /\ delivery' # delivery)
          => LET S == DeliveryPairs(routers, neighbor_order)[delivery][1]
                 R == DeliveryPairs(routers, neighbor_order)[delivery][2]
                 adv == all_filtered_tables[S][R]
                 cost == IF S \in DOMAIN neighbors[R] THEN neighbors[R][S] ELSE Inf
             IN  \A d \in RouterIDs :
                   IF /\ d \in DOMAIN adv
                      /\ d # R
                      /\ Less(Add(cost, adv[d].dist), get_distance(routing_table[R], d))
                   THEN /\ d \in DOMAIN routing_table'[R]
                        /\ routing_table'[R][d] = Entry(Add(cost, adv[d].dist), S)
                   ELSE /\ d \in DOMAIN routing_table'[R] <=> d \in DOMAIN routing_table[R]
                        /\ d \in DOMAIN routing_table[R]
                           => routing_table'[R][d] = routing_table[R][d]
       /\ \A r \in Roster(routers) : \A d \in DOMAIN routing_table[r] :
            routing_table'[r][d].next_hop # routing_table[r][d].next_hop
            => Less(routing_table'[r][d].dist, routing_table[r][d].dist)
      ]_vars

\* C13 witness: the last delivery offered a candidate equal to the distance
\* the receiver holds through another next hop, and the entry was kept.
TieWitness ==
    /\ pc = "deliver"
    /\ delivered.sender # None
    /\ delivered.sender \in DOMAIN neighbors[delivered.neighbor]
    /\ \E d \in DOMAIN delivered.table :
        /\ d # delivered.neighbor
        /\ d \in DOMAIN routing_table[delivered.neighbor]
        /\ routing_table[delivered.neighbor][d].next_hop # delivered.sender
        /\ routing_table[delivered.neighbor][d].dist =
             Add(neighbors[delivered.neighbor][delivered.sender], delivered.table[d].dist)

\* C14: a merge at router R from a sender whose link cost at R is
\* Unreachable, or who is not a key of R's neighbor links, changes no entry
\* of any table and counts no update, whatever it advertises; so no delivery
\* across a failed link changes a table.
NoMergeOverDeadLink ==
    [][(/\ pc = "deliver"
        /\ delivery' # delivery
        /\ LET S == DeliveryPairs(routers, neighbor_order)[delivery][1]
               R == DeliveryPairs(routers, neighbor_order)[delivery][2]
           IN  \/ S \notin DOMAIN neighbors[R]
               \/ neighbors[R][S] = Inf)
       => /\ routing_table' = routing_table
          /\ updates_this_round' = updates_this_round]_vars

\* C14 witness: an advertisement arrived over a failed link with a
\* destination the receiver has no entry for.
DeadLinkWitness ==
    /\ pc = "deliver"
    /\ delivered.sender # None
    /\ delivered.sender \in DOMAIN neighbors[delivered.neighbor]
    /\ neighbors[delivered.neighbor][delivered.sender] = Inf
    /\ \E d \in DOMAIN delivered.table : d \notin DOMAIN routing_table[delivered.neighbor]

\* C15: when both routers of the pair are in the roster and list each other,
\* the failure event sets exactly the two costs between them to Unreachable:
\* every other cost, every key of every neighbors dict and every routing
\* table stay as they are, and advertisements are still computed for and
\* delivered over the failed link in that round and later ones.
FailureFrame ==
    [][/\ (/\ pc = "failure"
           /\ failure_due
           /\ fail_pair[1] \in Roster(routers)
           /\ fail_pair[2] \in Roster(routers)
           /\ fail_pair[2] \in DOMAIN neighbors[fail_pair[1]]
           /\ fail_pair[1] \in DOMAIN neighbors[fail_pair[2]])
          => /\ routing_table' = routing_table
             /\ \A r \in DOMAIN neighbors :
                  /\ DOMAIN neighbors'[r] = DOMAIN neighbors[r]
                  /\ \A n \in DOMAIN neighbors[r] :
                       neighbors'[r][n] =
                         IF <<r, n>> \in {<<fail_pair[1], fail_pair[2]>>,
                                          <<fail_pair[2], fail_pair[1]>>}
                         THEN Inf ELSE neighbors[r][n]
       /\ \A r \in DOMAIN neighbors : DOMAIN neighbors'[r] = DOMAIN initial_neighbors[r]
       /\ pc' = "deliver"
          => /\ \A r \in DOMAIN neighbors :
                  DOMAIN all_filtered_tables'[r] = DOMAIN initial_neighbors[r]
             /\ \A r \in DOMAIN neighbors : \A n \in DOMAIN initial_neighbors[r] :
                  \E i \in 1..Len(DeliveryPairs(routers, neighbor_order)) :
                    DeliveryPairs(routers, neighbor_order)[i] = <<r, n>>
       /\ (pc = "deliver" /\ pc' # "deliver" /\ status' # "Error")
          => delivery = Len(DeliveryPairs(routers, neighbor_order)) + 1
      ]_vars

\* C15 witness: in a round after the round of the failure an advertisement
\* was delivered over the failed link, whose two costs are Unreachable.
FailureFrameWitness ==
    /\ pc = "deliver"
    /\ failure_calls = 1
    /\ iteration > link_failure_iter
    /\ delivered.sender = fail_pair[1]
    /\ delivered.neighbor = fail_pair[2]
    /\ neighbors[fail_pair[1]][fail_pair[2]] = Inf
    /\ neighbors[fail_pair[2]][fail_pair[1]] = Inf
    /\ initial_neighbors[fail_pair[1]][fail_pair[2]] # Inf

\* the least of a set of costs, Unreachable for the empty set
MinCost(S) == IF S = {} THEN Inf ELSE CHOOSE m \in S : \A x \in S : LessEq(m, x)

\* the cost of a cheapest walk of at most k links from r to d, over the links
\* that both ends list and with the cost the near end gives them
RECURSIVE WalkCost(_, _, _, _)
WalkCost(nb, r, d, k) ==
    IF r = d THEN 0
    ELSE IF k = 0 THEN Inf
    ELSE MinCost({Add(nb[r][n], WalkCost(nb, n, d, k - 1)) :
                    n \in {m \in DOMAIN nb[r] \cap DOMAIN nb : r \in DOMAIN nb[m]}})

\* the cost of a shortest path from r to d in the topology nb
ShortestPath(nb, r, d) ==
    IF d \in DOMAIN nb THEN WalkCost(nb, r, d, Cardinality(DOMAIN nb) - 1) ELSE Inf

\* router r holds an entry for d whose next hop is behind a failed link
stale(r, d) ==
    /\ d \in DOMAIN routing_table[r]
    /\ routing_table[r][d].next_hop \in DOMAIN neighbors[r]
    /\ neighbors[r][routing_table[r][d].next_hop] = Inf

\* C16: an entry whose next hop is behind the failed link is never removed
\* and never raised; unless the topology after the failure has a path of
\* strictly smaller cost, the entry stays exactly as it is in every step, up
\* to the end of the run.
StaleRouteSurvives ==
    [][\A r \in Roster(routers) : \A d \in RouterIDs :
        stale(r, d)
        => /\ d \in DOMAIN routing_table'[r]
           /\ LessEq(routing_table'[r][d].dist, routing_table[r][d].dist)
           /\ ~Less(ShortestPath(neighbors, r, d), routing_table[r][d].dist)
              => routing_table'[r][d] = routing_table[r][d]]_vars

\* C16 witness: a run ended Converged, rounds after the failure, with an
\* entry through the failed link to a destination that no path reaches any
\* more.
StaleRouteWitness ==
    /\ pc = "done"
    /\ status = "Converged"
    /\ iteration > link_failure_iter
    /\ \E r \in Roster(routers) : \E d \in RouterIDs :
        /\ stale(r, d)
        /\ ShortestPath(neighbors, r, d) = Inf
        /\ routing_table[r][d].dist # Inf

\* C17: in every reachable state the only entry of a router's table without
\* a next hop is its self-entry; every other entry has a next hop that is a
\* key of the router's neighbor links and is not the router itself, and a
\* finite, non-negative distance.
NextHopInv ==
    \A r \in Roster(routers) : \A d \in DOMAIN routing_table[r] :
        IF d = r
        THEN routing_table[r][d].next_hop = None
        ELSE /\ routing_table[r][d].next_hop # None
             /\ routing_table[r][d].next_hop \in DOMAIN neighbors[r]
             /\ routing_table[r][d].next_hop # r
             /\ routing_table[r][d].dist # Inf
             /\ routing_table[r][d].dist >= 0

\* C17 witness: a router that lists itself as a neighbor has merged its own
\* advertisement and holds a route to a destination learned from a neighbor.
NextHopWitness ==
    /\ pc = "deliver"
    /\ delivered.sender # None
    /\ delivered.sender = delivered.neighbor
    /\ \E d \in DOMAIN delivered.table :
        /\ d # delivered.neighbor
        /\ d \in DOMAIN routing_table[delivered.neighbor]

\* the roster was built with the same finite cost on both sides of every
\* link and lists only routers of the roster
well_formed ==
    \A r \in DOMAIN initial_neighbors : \A n \in DOMAIN initial_neighbors[r] :
        /\ n \in DOMAIN initial_neighbors
        /\ r \in DOMAIN initial_neighbors[n]
        /\ initial_neighbors[n][r] = initial_neighbors[r][n]
        /\ initial_neighbors[r][n] # Inf

\* C18: on a well-formed roster on which no failure has taken effect, a run
\* that stops Converged holds at every router, for every destination, the
\* cost of a shortest path to it, and no entry exactly for the destinations
\* not connected to the router.
ConvergesToShortestPaths ==
    (/\ pc = "done"
     /\ status = "Converged"
     /\ well_formed
     /\ neighbors = initial_neighbors)
    => \A r \in Roster(routers) : \A d \in RouterIDs :
         /\ get_distance(routing_table[r], d) = ShortestPath(initial_neighbors, r, d)
         /\ d \in DOMAIN routing_table[r] <=> ShortestPath(initial_neighbors, r, d) # Inf

\* C18 witness: such a run has ended with a route of more than one link
\* that is cheaper than the direct link, and with a destination left out.
ShortestPathsWitness ==
    /\ pc = "done"
    /\ status = "Converged"
    /\ well_formed
    /\ neighbors = initial_neighbors
    /\ \E r \in Roster(routers) : \E d \in DOMAIN routing_table[r] :
        /\ d \in DOMAIN neighbors[r]
        /\ routing_table[r][d].next_hop # d
        /\ routing_table[r][d].dist < neighbors[r][d]

\* C18 witness, second case: a converged run on a roster that is not
\* connected leaves the unreachable destination without an entry.
DisconnectedWitness ==
    /\ pc = "done"
    /\ status = "Converged"
    /\ well_formed
    /\ neighbors = initial_neighbors
    /\ \E r \in Roster(routers) : \E d \in Roster(routers) : d \notin DOMAIN routing_table[r]

\* C19: on a well-formed roster of N routers on which no failure has taken
\* effect, with max_iterations >= N, the run never goes beyond round N and it
\* stops Converged, never Exhausted.
ConvergesWithinN ==
    (/\ well_formed
     /\ neighbors = initial_neighbors
     /\ max_iterations >= Len(routers))
    => /\ iteration <= Len(routers)
       /\ pc = "done" => status = "Converged"

\* C19 witness: such a run needed all N rounds.
WithinNWitness ==
    /\ well_formed
    /\ neighbors = initial_neighbors
    /\ max_iterations >= Len(routers)
    /\ pc = "done"
    /\ status = "Converged"
    /\ iteration = Len(routers)

\* C20: the failure event is applied at most once in a run, only at the
\* start of round link_failure_iter and before that round's advertisements
\* are computed; a run that converges in an earlier round, or whose
\* link_failure_iter is disabled or above max_iterations, never applies it
\* and ends with every link cost as constructed.
FailureSchedule ==
    [][/\ failure_calls' # failure_calls
          => /\ failure_calls = 0
             /\ failure_calls' = 1
             /\ pc = "failure"
             /\ pc' = "advertise"
             /\ link_failure_iter # None
             /\ iteration = link_failure_iter
             /\ all_filtered_tables' = all_filtered_tables
             /\ routing_table' = routing_table
       /\ neighbors' # neighbors => failure_calls' # failure_calls
       /\ failure_calls' = 0 => neighbors' = initial_neighbors
       /\ (/\ pc' = "done"
           /\ \/ link_failure_iter = None
              \/ link_failure_iter > max_iterations
              \/ status' = "Converged" /\ iteration' < link_failure_iter)
          => failure_calls' = 0 /\ neighbors' = initial_neighbors
      ]_vars

\* C20 witness: a run with a failure scheduled for a later round converged
\* before it and ended with the link costs it started with.
FailureScheduleWitness ==
    /\ pc = "done"
    /\ status = "Converged"
    /\ link_failure_iter # None
    /\ iteration < link_failure_iter
    /\ link_failure_iter <= max_iterations
    /\ fail_pair[1] \in Roster(routers)
    /\ fail_pair[2] \in DOMAIN neighbors[fail_pair[1]]
    /\ failure_calls = 0
    /\ neighbors = initial_neighbors

====
